---- MODULE Spec2Model ----
(***************************************************************************)
(* Model of simple_test_server.py: the TestHandler route dispatcher        *)
(* (do_GET / do_POST) served by a socketserver.TCPServer, one request at a *)
(* time.  Paths are strings; matching is done character by character with  *)
(* Python's ==, str.startswith and str.endswith.                           *)
(***************************************************************************)
EXTENDS Integers, Sequences, FiniteSets, TLC

VARIABLES
    now,        \* the wall clock read by datetime.now()
    stdout,     \* number of lines printed by log_message
    command,    \* self.command of the live handler instance ("" = no handler)
    path,       \* self.path of the live handler instance
    wfile,      \* what the live handler has written to the client, in order
    firstReq,   \* history: the first request this server process handled
    firstResp   \* history: what that first request was answered with

vars == <<now, stdout, command, path, wfile, firstReq, firstResp>>

----------------------------------------------------------------------------
(* Bounds *)

MaxClock    == 1    \* the clock takes the values 0..MaxClock
MaxRequests == 3    \* requests handled in one run of the server
MaxTail     == 1    \* path = a base followed by at most MaxTail tails

----------------------------------------------------------------------------
(* Request inputs *)

Methods == {"GET", "POST"}

Bases == {
    "", "/unknown/path",
    "/health", "/api/v1/instance", "/api/v1/timelines/public",
    "/api/v1/accounts", "/api/v1/accounts/", "/api/v1/accounts/1",
    "/api/v1/search",
    "/api/v1/auth/register", "/api/v1/auth/login", "/api/v1/statuses",
    "/api/v1/media", "/api/v1/notifications",
    "/api/v1/lists", "/api/v1/conversations", "/api/v1/bookmarks",
    "/api/v1/mutes", "/api/v1/blocks", "/api/v1/reports", "/api/v1/filters" }

Tails == {
    "/follow", "/unfollow", "/favourite", "/unfavourite", "/reblog",
    "/unreblog", "follow", "/123", "/anything", "?q=test", "?x=1" }

RECURSIVE Extend(_, _)
Extend(S, n) ==
    IF n = 0 THEN S
    ELSE Extend(S \cup {p \o t : p \in S, t \in Tails}, n - 1)

Paths == Extend(Bases, MaxTail) \ {""}

Clock == 0 .. MaxClock

\* The requests whose first answer the history variables remember.
Watched == {
    <<"GET", "/health">>, <<"GET", "/api/v1/accounts/123">>,
    <<"GET", "/unknown/path">>, <<"POST", "/api/v1/statuses">>,
    <<"POST", "/api/v1/accounts/1/follow">>, <<"POST", "/unknown/path">> }

----------------------------------------------------------------------------
(* Python string and library primitives *)

startswith(s, prefix) ==
    /\ Len(prefix) <= Len(s)
    /\ SubSeq(s, 1, Len(prefix)) = prefix

endswith(s, suffix) ==
    /\ Len(suffix) <= Len(s)
    /\ SubSeq(s, Len(s) - Len(suffix) + 1, Len(s)) = suffix

None == [py |-> "None"]

isoformat(t) == "2025-01-01T00:00:0" \o ToString(t)

JsonDumps(response) == [json |-> response, indent |-> 2, encoding |-> "utf-8"]

----------------------------------------------------------------------------
(* Route rules, in the order the handlers test them *)

RECURSIVE Find(_, _, _)
Find(s, ch, i) ==
    IF i > Len(s) THEN 0
    ELSE IF SubSeq(s, i, i) = ch THEN i
    ELSE Find(s, ch, i + 1)

\* Mutant: the query string is cut off before matching.
Matches_stripQuery(rule, p) ==
    LET q == Find(p, "?", 1)
        u == IF q = 0 THEN p ELSE SubSeq(p, 1, q - 1)
    IN  CASE rule.kind = "eq"         -> u = rule.lit
          [] rule.kind = "startswith" -> startswith(u, rule.lit)
          [] rule.kind = "endswith"   -> endswith(u, rule.lit)

\* Mutant: an exact rule accepts every path that begins with its literal.
Matches_prefixForEq(rule, p) ==
    CASE rule.kind = "eq"         -> startswith(p, rule.lit)
      [] rule.kind = "startswith" -> startswith(p, rule.lit)
      [] rule.kind = "endswith"   -> endswith(p, rule.lit)

\* Mutant: a suffix rule is compared without its leading slash.
Matches_suffixNoSlash(rule, p) ==
    CASE rule.kind = "eq"         -> p = rule.lit
      [] rule.kind = "startswith" -> startswith(p, rule.lit)
      [] rule.kind = "endswith"   -> endswith(p, SubSeq(rule.lit, 2, Len(rule.lit)))

Matches(rule, p) ==
    CASE rule.kind = "eq"         -> p = rule.lit
      [] rule.kind = "startswith" -> startswith(p, rule.lit)
      [] rule.kind = "endswith"   -> endswith(p, rule.lit)

\* Index of the first rule of the chain, from rule i on, that p satisfies;
\* 0 selects the else branch.
RECURSIVE FirstFrom(_, _, _)
FirstFrom(rules, p, i) ==
    IF i > Len(rules) THEN 0
    ELSE IF Matches(rules[i], p) THEN i
    ELSE FirstFrom(rules, p, i + 1)

FirstMatch(rules, p) == FirstFrom(rules, p, 1)

\* Mutant: the search rule is an exact match.
GetPatterns_exactSearch == <<
    [kind |-> "eq",         lit |-> "/health"],
    [kind |-> "eq",         lit |-> "/api/v1/instance"],
    [kind |-> "eq",         lit |-> "/api/v1/timelines/public"],
    [kind |-> "startswith", lit |-> "/api/v1/accounts/"],
    [kind |-> "eq",         lit |-> "/api/v1/search"] >>

GetPatterns == <<
    [kind |-> "eq",         lit |-> "/health"],
    [kind |-> "eq",         lit |-> "/api/v1/instance"],
    [kind |-> "eq",         lit |-> "/api/v1/timelines/public"],
    [kind |-> "startswith", lit |-> "/api/v1/accounts/"],
    [kind |-> "startswith", lit |-> "/api/v1/search"] >>

\* Mutant: the account id is taken from the path.
AccountPayload_echoId(p) ==
    [id |-> SubSeq(p, Len("/api/v1/accounts/") + 1, Len(p)),
     username |-> "testuser", display_name |-> "Test User",
     created_at |-> "2025-01-01T00:00:00Z"]

AccountPayload(p) ==
    [id |-> "1", username |-> "testuser", display_name |-> "Test User",
     created_at |-> "2025-01-01T00:00:00Z"]

GetPayload(i, p, t) ==
    CASE i = 1 -> [status |-> "ok", message |-> "Health check passed",
                   timestamp |-> isoformat(t)]
      [] i = 2 -> [version |-> "1.0.0", name |-> "Rustodon Test Server",
                   description |-> "Test server for API validation"]
      [] i = 3 -> [statuses |-> <<>>, next |-> None, prev |-> None]
      [] i = 4 -> AccountPayload(p)
      [] i = 5 -> [accounts |-> <<>>, statuses |-> <<>>, hashtags |-> <<>>]
      [] OTHER -> [message |-> "Welcome to Rustodon Test Server",
                   endpoints |-> << "/health", "/api/v1/instance",
                                    "/api/v1/timelines/public",
                                    "/api/v1/accounts/1",
                                    "/api/v1/search?q=test" >>]

\* Mutant: the statuses rule is a prefix match.
PostPatterns_prefixStatuses == <<
    [kind |-> "eq",         lit |-> "/api/v1/auth/register"],
    [kind |-> "eq",         lit |-> "/api/v1/auth/login"],
    [kind |-> "startswith", lit |-> "/api/v1/statuses"],
    [kind |-> "eq",         lit |-> "/api/v1/media"],
    [kind |-> "eq",         lit |-> "/api/v1/notifications"],
    [kind |-> "endswith",   lit |-> "/follow"],
    [kind |-> "endswith",   lit |-> "/unfollow"],
    [kind |-> "endswith",   lit |-> "/favourite"],
    [kind |-> "endswith",   lit |-> "/unfavourite"],
    [kind |-> "endswith",   lit |-> "/reblog"],
    [kind |-> "endswith",   lit |-> "/unreblog"],
    [kind |-> "eq",         lit |-> "/api/v1/lists"],
    [kind |-> "eq",         lit |-> "/api/v1/conversations"],
    [kind |-> "eq",         lit |-> "/api/v1/bookmarks"],
    [kind |-> "eq",         lit |-> "/api/v1/mutes"],
    [kind |-> "eq",         lit |-> "/api/v1/blocks"],
    [kind |-> "eq",         lit |-> "/api/v1/reports"],
    [kind |-> "eq",         lit |-> "/api/v1/filters"] >>

PostPatterns == <<
    [kind |-> "eq",       lit |-> "/api/v1/auth/register"],
    [kind |-> "eq",       lit |-> "/api/v1/auth/login"],
    [kind |-> "eq",       lit |-> "/api/v1/statuses"],
    [kind |-> "eq",       lit |-> "/api/v1/media"],
    [kind |-> "eq",       lit |-> "/api/v1/notifications"],
    [kind |-> "endswith", lit |-> "/follow"],
    [kind |-> "endswith", lit |-> "/unfollow"],
    [kind |-> "endswith", lit |-> "/favourite"],
    [kind |-> "endswith", lit |-> "/unfavourite"],
    [kind |-> "endswith", lit |-> "/reblog"],
    [kind |-> "endswith", lit |-> "/unreblog"],
    [kind |-> "eq",       lit |-> "/api/v1/lists"],
    [kind |-> "eq",       lit |-> "/api/v1/conversations"],
    [kind |-> "eq",       lit |-> "/api/v1/bookmarks"],
    [kind |-> "eq",       lit |-> "/api/v1/mutes"],
    [kind |-> "eq",       lit |-> "/api/v1/blocks"],
    [kind |-> "eq",       lit |-> "/api/v1/reports"],
    [kind |-> "eq",       lit |-> "/api/v1/filters"] >>

\* Mutant: the status id counts the requests served so far.
StatusPayload_counting(t) ==
    [id |-> ToString(stdout + 1), content |-> "Test status",
     created_at |-> isoformat(t)]

StatusPayload(t) ==
    [id |-> "1", content |-> "Test status", created_at |-> isoformat(t)]

\* Mutant: the echoed path has its query string cut off.
NotImplemented_stripQuery(p) ==
    LET q == Find(p, "?", 1)
    IN  [error |-> "Endpoint not implemented",
         path |-> IF q = 0 THEN p ELSE SubSeq(p, 1, q - 1)]

NotImplemented(p) == [error |-> "Endpoint not implemented", path |-> p]

PostPayload(i, p, t) ==
    CASE i = 1  -> [token |-> "test_token_123", user_id |-> "1",
                    message |-> "Registration successful"]
      [] i = 2  -> [token |-> "test_token_123", user_id |-> "1",
                    message |-> "Login successful"]
      [] i = 3  -> StatusPayload(t)
      [] i = 4  -> [id |-> "1", type |-> "image",
                    url |-> "https://example.com/test.jpg"]
      [] i = 5  -> [notifications |-> <<>>]
      [] i = 6  -> [message |-> "Follow successful"]
      [] i = 7  -> [message |-> "Unfollow successful"]
      [] i = 8  -> [message |-> "Favourite successful"]
      [] i = 9  -> [message |-> "Unfavourite successful"]
      [] i = 10 -> [message |-> "Reblog successful"]
      [] i = 11 -> [message |-> "Unreblog successful"]
      [] i = 12 -> [lists |-> <<>>]
      [] i = 13 -> [conversations |-> <<>>]
      [] i = 14 -> [bookmarks |-> <<>>]
      [] i = 15 -> [mutes |-> <<>>]
      [] i = 16 -> [blocks |-> <<>>]
      [] i = 17 -> [reports |-> <<>>]
      [] i = 18 -> [filters |-> <<>>]
      [] OTHER  -> NotImplemented(p)

----------------------------------------------------------------------------
(* The handler *)

\* Mutant: an unmatched POST is answered with 404.
Reply_notFound(response) == <<
    <<"status", IF "error" \in DOMAIN response THEN 404 ELSE 200>>,
    <<"header", "Content-type", "application/json">>,
    <<"header", "Access-Control-Allow-Origin", "*">>,
    <<"end_headers">>,
    <<"body", JsonDumps(response)>> >>

\* Mutant: the CORS header is sent after the body.
Reply_lateHeader(response) == <<
    <<"status", 200>>,
    <<"header", "Content-type", "application/json">>,
    <<"end_headers">>,
    <<"body", JsonDumps(response)>>,
    <<"header", "Access-Control-Allow-Origin", "*">> >>

\* send_response(200), the two send_header calls, end_headers(), then the body.
Reply(response) == <<
    <<"status", 200>>,
    <<"header", "Content-type", "application/json">>,
    <<"header", "Access-Control-Allow-Origin", "*">>,
    <<"end_headers">>,
    <<"body", JsonDumps(response)>> >>

\* The timestamp fields of a response body, blanked.
Masked(cmd, p, w) ==
    [k \in DOMAIN w |->
        IF w[k][1] # "body" THEN w[k]
        ELSE LET r == w[k][2].json IN
             <<"body",
               [w[k][2] EXCEPT !.json =
                   [f \in DOMAIN r |->
                       IF \/ cmd = "GET"  /\ p = "/health" /\ f = "timestamp"
                          \/ cmd = "POST" /\ p = "/api/v1/statuses" /\ f = "created_at"
                       THEN "*" ELSE r[f]]]>>]

NoResponse == <<>>

Init ==
    /\ now = 0
    /\ stdout = 0
    /\ command = ""
    /\ path = ""
    /\ wfile = NoResponse
    /\ firstReq = <<>>
    /\ firstResp = NoResponse

\* The server accepts a connection and parses the request line into a fresh
\* handler instance.
Accept ==
    /\ command = ""
    /\ stdout < MaxRequests
    /\ \E m \in Methods, p \in Paths :
          /\ command' = m
          /\ path' = p
    /\ wfile' = NoResponse
    /\ UNCHANGED <<now, stdout, firstReq, firstResp>>

Remember(w) ==
    IF stdout = 0 /\ <<command, path>> \in Watched
    THEN firstReq' = <<command, path>> /\ firstResp' = Masked(command, path, w)
    ELSE UNCHANGED <<firstReq, firstResp>>

do_GET ==
    /\ command = "GET"
    /\ wfile = NoResponse
    /\ LET w == Reply(GetPayload(FirstMatch(GetPatterns, path), path, now)) IN
          /\ wfile' = w
          /\ Remember(w)
    /\ stdout' = stdout + 1
    /\ UNCHANGED <<now, command, path>>

do_POST ==
    /\ command = "POST"
    /\ wfile = NoResponse
    /\ LET w == Reply(PostPayload(FirstMatch(PostPatterns, path), path, now)) IN
          /\ wfile' = w
          /\ Remember(w)
    /\ stdout' = stdout + 1
    /\ UNCHANGED <<now, command, path>>

\* The request is finished; the handler instance and its connection go away.
Finish ==
    /\ command # ""
    /\ wfile # NoResponse
    /\ command' = ""
    /\ path' = ""
    /\ wfile' = NoResponse
    /\ UNCHANGED <<now, stdout, firstReq, firstResp>>

Tick ==
    /\ now < MaxClock
    /\ now' = now + 1
    /\ UNCHANGED <<stdout, command, path, wfile, firstReq, firstResp>>

Next ==
    \/ Accept
    \/ do_GET
    \/ do_POST
    \/ Finish
    \/ Tick

Spec == Init /\ [][Next]_vars

----------------------------------------------------------------------------
(* What the client has received *)

Responded == wfile # NoResponse

StatusEvents == {k \in DOMAIN wfile : wfile[k][1] = "status"}

BodyEvents == {k \in DOMAIN wfile : wfile[k][1] = "body"}

\* The JSON document of the response body.
Payload == wfile[CHOOSE k \in BodyEvents : TRUE][2].json

HeaderSentAt(k, name, value) ==
    /\ wfile[k][1] = "header"
    /\ wfile[k][2] = name
    /\ wfile[k][3] = value

(* The rules as the specification lists them *)

SpecGetMatched(p) ==
    \/ p \in {"/health", "/api/v1/instance", "/api/v1/timelines/public"}
    \/ startswith(p, "/api/v1/accounts/")
    \/ startswith(p, "/api/v1/search")

SpecPostExact == <<
    [lit |-> "/api/v1/auth/register", rule |-> 1],
    [lit |-> "/api/v1/auth/login",    rule |-> 2],
    [lit |-> "/api/v1/statuses",      rule |-> 3],
    [lit |-> "/api/v1/media",         rule |-> 4],
    [lit |-> "/api/v1/notifications", rule |-> 5],
    [lit |-> "/api/v1/lists",         rule |-> 12],
    [lit |-> "/api/v1/conversations", rule |-> 13],
    [lit |-> "/api/v1/bookmarks",     rule |-> 14],
    [lit |-> "/api/v1/mutes",         rule |-> 15],
    [lit |-> "/api/v1/blocks",        rule |-> 16],
    [lit |-> "/api/v1/reports",       rule |-> 17],
    [lit |-> "/api/v1/filters",       rule |-> 18] >>

SpecPostSuffix == <<
    [lit |-> "/follow",      rule |-> 6],
    [lit |-> "/unfollow",    rule |-> 7],
    [lit |-> "/favourite",   rule |-> 8],
    [lit |-> "/unfavourite", rule |-> 9],
    [lit |-> "/reblog",      rule |-> 10],
    [lit |-> "/unreblog",    rule |-> 11] >>

\* The reference dispatcher: the twelve exact rules, then the six suffix
\* rules, first match wins; 0 is the fallback.
RECURSIVE RefSuffixFrom(_, _)
RefSuffixFrom(p, k) ==
    IF k > Len(SpecPostSuffix) THEN 0
    ELSE IF endswith(p, SpecPostSuffix[k].lit) THEN SpecPostSuffix[k].rule
    ELSE RefSuffixFrom(p, k + 1)

RECURSIVE RefExactFrom(_, _)
RefExactFrom(p, k) ==
    IF k > Len(SpecPostExact) THEN RefSuffixFrom(p, 1)
    ELSE IF p = SpecPostExact[k].lit THEN SpecPostExact[k].rule
    ELSE RefExactFrom(p, k + 1)

RefPostRule(p) == RefExactFrom(p, 1)

SpecPostMatched(p) ==
    \/ \E k \in DOMAIN SpecPostExact : p = SpecPostExact[k].lit
    \/ \E k \in DOMAIN SpecPostSuffix : endswith(p, SpecPostSuffix[k].lit)

----------------------------------------------------------------------------
(* Claims *)

\* C1: every answered GET or POST request, matched or not, got exactly one
\* status line, which is 200 and comes first, and exactly one JSON body; an
\* unmatched path got a descriptive body (the welcome message for GET, the
\* error text for POST).
C1_AlwaysOkJson ==
    Responded =>
        /\ StatusEvents = {1}
        /\ wfile[1][2] = 200
        /\ Cardinality(BodyEvents) = 1
        /\ DOMAIN wfile[CHOOSE k \in BodyEvents : TRUE][2] = {"json", "indent", "encoding"}
        /\ DOMAIN Payload # {}
        /\ (command = "GET" /\ ~SpecGetMatched(path)) => "message" \in DOMAIN Payload
        /\ (command = "POST" /\ ~SpecPostMatched(path)) => "error" \in DOMAIN Payload

C1_Witness ==
    /\ Responded
    /\ command = "POST"
    /\ path = "/unknown/path"
    /\ wfile[1] = <<"status", 200>>
    /\ "error" \in DOMAIN Payload

\* C2: a GET is answered by the first matching rule in the order /health,
\* /api/v1/instance, /api/v1/timelines/public, prefix /api/v1/accounts/,
\* prefix /api/v1/search, else the welcome fallback, and the body has exactly
\* the documented keys of that rule.
C2_GetKeys ==
    (Responded /\ command = "GET") =>
        DOMAIN Payload =
            IF path = "/health" THEN {"status", "message", "timestamp"}
            ELSE IF path = "/api/v1/instance" THEN {"version", "name", "description"}
            ELSE IF path = "/api/v1/timelines/public" THEN {"statuses", "next", "prev"}
            ELSE IF startswith(path, "/api/v1/accounts/")
                 THEN {"id", "username", "display_name", "created_at"}
            ELSE IF startswith(path, "/api/v1/search")
                 THEN {"accounts", "statuses", "hashtags"}
            ELSE {"message", "endpoints"}

C2_Witness ==
    /\ Responded
    /\ command = "GET"
    /\ path = "/api/v1/search/anything"
    /\ DOMAIN Payload = {"accounts", "statuses", "hashtags"}

\* C3: a POST is answered with the payload the reference dispatcher selects
\* (twelve exact rules first, then the six suffix rules, else the fallback).
C3_PostMatchesReference ==
    (Responded /\ command = "POST") =>
        \E t \in Clock : Payload = PostPayload(RefPostRule(path), path, t)

C3_Witness ==
    /\ Responded
    /\ command = "POST"
    /\ path = "/api/v1/lists"
    /\ Payload = [lists |-> <<>>]

\* C4: every response carries Content-type: application/json and
\* Access-Control-Allow-Origin: *, both sent before the body.
C4_HeadersBeforeBody ==
    Responded =>
        /\ BodyEvents # {}
        /\ \A b \in BodyEvents :
              /\ \E k \in 1 .. (b - 1) :
                    HeaderSentAt(k, "Content-type", "application/json")
              /\ \E k \in 1 .. (b - 1) :
                    HeaderSentAt(k, "Access-Control-Allow-Origin", "*")

C4_Witness ==
    /\ Responded
    /\ command = "GET"
    /\ path = "/unknown/path"
    /\ HeaderSentAt(2, "Content-type", "application/json")
    /\ HeaderSentAt(3, "Access-Control-Allow-Origin", "*")
    /\ BodyEvents = {5}

\* C5: whatever was served before, a request is answered as it was when it
\* was the first request of the server, timestamp fields aside.
C5_Stateless ==
    (Responded /\ <<command, path>> = firstReq) =>
        Masked(command, path, wfile) = firstResp

C5_Witness ==
    /\ Responded
    /\ stdout = 3
    /\ firstReq = <<"POST", "/api/v1/statuses">>
    /\ command = "POST"
    /\ path = "/api/v1/statuses"
    /\ Payload.created_at # isoformat(0)

\* C6: every GET path that starts with /api/v1/accounts/ is answered with
\* the one fixed account payload.
C6_AccountsFixed ==
    (Responded /\ command = "GET" /\ startswith(path, "/api/v1/accounts/")) =>
        Payload = [id |-> "1", username |-> "testuser",
                   display_name |-> "Test User",
                   created_at |-> "2025-01-01T00:00:00Z"]

C6_Witness ==
    /\ Responded
    /\ command = "GET"
    /\ path = "/api/v1/accounts/anything"
    /\ Payload.id = "1"

\* C7: a POST to any path ending in /follow is answered with
\* {"message": "Follow successful"}.
C7_FollowSuffix ==
    (Responded /\ command = "POST" /\ endswith(path, "/follow")) =>
        Payload = [message |-> "Follow successful"]

C7_Witness ==
    /\ Responded
    /\ command = "POST"
    /\ path = "/api/v1/statuses/follow"
    /\ Payload = [message |-> "Follow successful"]

\* C8: a POST is answered with the error body exactly when its path matches
\* no exact or suffix rule, and then the body is
\* {"error": "Endpoint not implemented", "path": <the path as received>}.
C8_NotImplemented ==
    (Responded /\ command = "POST") =>
        /\ ("error" \in DOMAIN Payload) <=> ~SpecPostMatched(path)
        /\ ~SpecPostMatched(path) =>
              Payload = [error |-> "Endpoint not implemented", path |-> path]

C8_Witness ==
    /\ Responded
    /\ command = "POST"
    /\ path = "/api/v1/search?q=test"
    /\ Payload.path = "/api/v1/search?q=test"

\* C9: matching uses the raw path: /api/v1/search followed by a query string
\* gets the search payload, while an exact-rule path followed by a query
\* string misses its rule and gets the welcome fallback.
C9_RawPath ==
    (Responded /\ command = "GET") =>
        /\ startswith(path, "/api/v1/search?") =>
              Payload = [accounts |-> <<>>, statuses |-> <<>>, hashtags |-> <<>>]
        /\ \A e \in {"/health", "/api/v1/instance", "/api/v1/timelines/public"} :
              startswith(path, e \o "?") =>
                  DOMAIN Payload = {"message", "endpoints"}

C9_Witness ==
    /\ Responded
    /\ command = "GET"
    /\ path = "/health?x=1"
    /\ "endpoints" \in DOMAIN Payload

\* C10: no path satisfies two rules of the chain it is dispatched by, so the
\* rule that answers is the only rule that matches.
C10_Disjoint ==
    Responded =>
        LET rules == IF command = "GET" THEN GetPatterns ELSE PostPatterns
            hits  == {i \in DOMAIN rules : Matches(rules[i], path)}
        IN  /\ Cardinality(hits) <= 1
            /\ \A i \in hits : FirstMatch(rules, path) = i

C10_Witness ==
    /\ Responded
    /\ command = "POST"
    /\ path = "/api/v1/statuses/unfavourite"
    /\ Payload = [message |-> "Unfavourite successful"]

====
